---- MODULE Spec2Model ----
(***************************************************************************)
(* Research agent graph of backend/src/agent/graph.py:                     *)
(*   START -> generate_query -> web_research* -> reflection                *)
(*         -> (web_research* | finalize_answer) -> END                     *)
(* together with the citation helper of backend/src/agent/utils.py.        *)
(*                                                                         *)
(* Strings are sequences of tokens, so that f-string concatenation and     *)
(* str.replace are computed rather than assumed.                           *)
(***************************************************************************)
EXTENDS Integers, Sequences, FiniteSets, TLC

\* ------------------------------------------------------------------ bounds
\* largest max_research_loops a caller passes in the state
MaxLoops == 2
\* longest query list the planner / evaluator returns
MaxQueries == 2
\* longest text handed to insert_citation_markers
MaxTextLen == 3
\* longest sources list handed to insert_citation_markers
MaxSources == 2
\* longest organic_results list of a response body in a single web_research call
MaxOrganic == 9

\* ------------------------------------------------------- program constants
configurable_max_research_loops == 2
run_agent_max_research_loops == 3
web_research_num_results == 8
search_api_max_num == 10

\* -------------------------------------------------------------- input sets
PageA == [url |-> "a", title |-> "X", snippet |-> "s"]
PageB == [url |-> "b", title |-> "2", snippet |-> "s"]
CitePages == {[url |-> u, title |-> t, snippet |-> "s"] : u \in {"a", "b"}, t \in {"X", "2"}}
\* organic_results of a response body
ResultLists == {<<>>, <<PageB, PageA>>}
Alphabet == {"[", "]", "1", "2", "3", "x"}
Responses == {<<"s", "[", "1", "]">>}
Answers == {"answer"}

SeqsUpTo(S, n) == UNION {[1..k -> S] : k \in 0..n}

Min(a, b) == IF a < b THEN a ELSE b

\* ------------------------------------------------------------------- state
VARIABLES
    pc,                    \* node(s) scheduled for the next superstep
    configurable,          \* max_research_loops of Configuration.from_runnable_config
    messages,              \* OverallState channels
    search_query,
    web_research_result,
    sources_gathered,
    research_loop_count,
    max_research_loops,    \* 0 models an absent (or falsy) state entry
    is_sufficient,         \* ReflectionState channels
    follow_up_queries,
    number_of_ran_queries,
    tasks,                 \* the Send tasks of the current web_research superstep
    error_stage,           \* node whose exception left graph.invoke
    returned_sources,      \* "sources_gathered" entry of finalize_answer's return value
    sent_ids,              \* history: the "id" of every Send, in dispatch order
    findings_before,       \* history: len(web_research_result) when the batch was sent
    finalize_count,        \* history: number of finalize_answer executions
    ever_sufficient,       \* history: some verdict had is_sufficient = True
    generate_count,        \* history: number of generate_query executions
    evaluations,           \* history: number of verdicts reflection obtained
    evidence,              \* history: the summaries text of the latest reflection prompt
    agent_return,          \* outcome of run_agent
    c_pc, c_text, c_sources, c_out,  \* one call of insert_citation_markers
    t_pc, t_query, t_response, t_llm,    \* one call of web_research
    t_request_num, t_results, t_out

graphVars == <<pc, configurable, generate_count, evaluations, evidence, messages, search_query, web_research_result, sources_gathered,
               research_loop_count, max_research_loops, is_sufficient,
               follow_up_queries, number_of_ran_queries, tasks, error_stage,
               returned_sources, sent_ids, findings_before, finalize_count,
               ever_sufficient>>
runVars == <<agent_return>>
citeVars == <<c_pc, c_text, c_sources, c_out>>
taskVars == <<t_pc, t_query, t_response, t_llm, t_request_num, t_results, t_out>>
sideVars == <<runVars, citeVars, taskVars>>
vars == <<graphVars, sideVars>>

\* -------------------------------------------------------- agent/utils.py
DigitStr(i) == IF i = 1 THEN "1" ELSE IF i = 2 THEN "2" ELSE IF i = 3 THEN "3"
               ELSE IF i = 4 THEN "4" ELSE IF i = 5 THEN "5" ELSE IF i = 6 THEN "6"
               ELSE IF i = 7 THEN "7" ELSE IF i = 8 THEN "8" ELSE "9"

\* query lists a structured-output call returns: n distinct query strings
QueryLists == {[i \in 1..n |-> <<"q", DigitStr(i)>>] : n \in 0..MaxQueries}

StartsWith(text, pat) ==
    /\ Len(pat) <= Len(text)
    /\ \A k \in 1..Len(pat) : text[k] = pat[k]

Drop(text, n) == SubSeq(text, n + 1, Len(text))

\* str.replace(old, new): leftmost non-overlapping occurrences, one pass
RECURSIVE str_replace(_, _, _)
str_replace(text, old, new) ==
    IF text = <<>> THEN <<>>
    ELSE IF StartsWith(text, old)
         THEN new \o str_replace(Drop(text, Len(old)), old, new)
         ELSE <<Head(text)>> \o str_replace(Tail(text), old, new)

marker_pattern(i) == <<"[", DigitStr(i), "]">>
link_replacement(source) == <<"[", source.title, "]", "(", source.url, ")">>

RECURSIVE citation_loop(_, _, _)
citation_loop(modified_text, sources, i) ==
    IF i > Len(sources) THEN modified_text
    ELSE citation_loop(str_replace(modified_text, marker_pattern(i),
                                   link_replacement(sources[i])),
                       sources, i + 1)

insert_citation_markers(text, sources) ==
    IF sources = <<>> THEN text ELSE citation_loop(text, sources, 1)

\* -------------------------------------------------------- agent/state.py
\* Annotated[list, operator.add] channels: an update is appended
reducer_add(old, update) == old \o update
\* plain channels: an update replaces the value
last_value(old, update) == update

\* -------------------------------------------------------- agent/graph.py
\* provider response: raised (any exception inside the try) or a JSON body
ProviderResponses ==
    {[raised |-> TRUE, organic |-> <<>>]} \cup
    {[raised |-> FALSE, organic |-> o] : o \in ResultLists}

\* the "num" parameter of the request
search_api_num(num_results) == Min(num_results, search_api_max_num)

\* search_web returning every organic result of the body
search_web_unsliced(query, num_results, response) ==
    IF response.raised THEN <<>> ELSE response.organic

search_web(query, num_results, response) ==
    IF response.raised THEN <<>>
    ELSE SubSeq(response.organic, 1, Min(Len(response.organic), num_results))

\* continue_to_web_research that sends only the first query
continue_to_web_research_first_only(queries) ==
    [idx \in 1..Min(Len(queries), 1) |-> [search_query |-> queries[idx], id |-> idx - 1]]

continue_to_web_research(queries) ==
    [idx \in 1..Len(queries) |-> [search_query |-> queries[idx], id |-> idx - 1]]

NoOutput == [sources_gathered |-> <<>>, search_query |-> <<>>, web_research_result |-> <<>>]

\* web_research whose zero-result branch returns no finding text
web_research_drops_empty(query, search_results, llm) ==
    IF search_results = <<>>
    THEN [raised |-> FALSE, llm_called |-> FALSE,
          out |-> [sources_gathered |-> <<>>,
                   search_query |-> <<query>>,
                   web_research_result |-> <<>>]]
    ELSE IF llm.raised
    THEN [raised |-> TRUE, llm_called |-> TRUE, out |-> NoOutput]
    ELSE [raised |-> FALSE, llm_called |-> TRUE,
          out |-> [sources_gathered |-> search_results,
                   search_query |-> <<query>>,
                   web_research_result |->
                       <<insert_citation_markers(llm.content, search_results)>>]]

\* web_research without the early return of the zero-result branch
web_research_always_summarizes(query, search_results, llm) ==
    IF llm.raised
    THEN [raised |-> TRUE, llm_called |-> TRUE, out |-> NoOutput]
    ELSE [raised |-> FALSE, llm_called |-> TRUE,
          out |-> [sources_gathered |-> search_results,
                   search_query |-> <<query>>,
                   web_research_result |->
                       <<insert_citation_markers(llm.content, search_results)>>]]

\* llm = [raised |-> BOOLEAN, content |-> text] is what llm.invoke would do if called
web_research(query, search_results, llm) ==
    IF search_results = <<>>
    THEN [raised |-> FALSE, llm_called |-> FALSE,
          out |-> [sources_gathered |-> <<>>,
                   search_query |-> <<query>>,
                   web_research_result |-> << <<"No search results found for: ">> \o query >>]]
    ELSE IF llm.raised
    THEN [raised |-> TRUE, llm_called |-> TRUE, out |-> NoOutput]
    ELSE [raised |-> FALSE, llm_called |-> TRUE,
          out |-> [sources_gathered |-> search_results,
                   search_query |-> <<query>>,
                   web_research_result |->
                       <<insert_citation_markers(llm.content, search_results)>>]]

\* sep.join(parts)
RECURSIVE str_join(_, _)
str_join(sep, parts) ==
    IF parts = <<>> THEN <<>>
    ELSE IF Len(parts) = 1 THEN parts[1]
    ELSE parts[1] \o sep \o str_join(sep, Tail(parts))

\* summaries built from the latest finding only
reflection_summaries_latest_only(findings) ==
    IF findings = <<>> THEN <<>> ELSE findings[Len(findings)]

\* the summaries placed in the reflection prompt
reflection_summaries(findings) == str_join(<<"\n\n---\n\n">>, findings)

\* reflection that counts every round twice
reflection_counts_twice(loop_count, queries, verdict) ==
    [is_sufficient |-> verdict.is_sufficient,
     follow_up_queries |-> verdict.follow_up_queries,
     research_loop_count |-> loop_count + 2,
     number_of_ran_queries |-> Len(queries)]

\* verdict = [is_sufficient, follow_up_queries] is the structured output of the model
reflection(loop_count, queries, verdict) ==
    [is_sufficient |-> verdict.is_sufficient,
     follow_up_queries |-> verdict.follow_up_queries,
     research_loop_count |-> loop_count + 1,
     number_of_ran_queries |-> Len(queries)]

effective_max_research_loops(state_max, cfg_max) ==
    IF state_max # 0 THEN state_max ELSE cfg_max

\* evaluate_research comparing with > instead of >=
evaluate_research_off_by_one(sufficient, loop_count, state_max, cfg_max, follow_ups, ran_queries) ==
    IF sufficient \/ loop_count > effective_max_research_loops(state_max, cfg_max)
    THEN [route |-> "finalize_answer", sends |-> <<>>]
    ELSE [route |-> "web_research",
          sends |-> [idx \in 1..Len(follow_ups) |->
                        [search_query |-> follow_ups[idx],
                         id |-> ran_queries + (idx - 1)]]]

\* evaluate_research that finalizes on a sufficient verdict only when it has no follow-ups
evaluate_research_prefers_follow_ups(sufficient, loop_count, state_max, cfg_max, follow_ups, ran_queries) ==
    IF (sufficient /\ follow_ups = <<>>) \/ loop_count >= effective_max_research_loops(state_max, cfg_max)
    THEN [route |-> "finalize_answer", sends |-> <<>>]
    ELSE [route |-> "web_research",
          sends |-> [idx \in 1..Len(follow_ups) |->
                        [search_query |-> follow_ups[idx],
                         id |-> ran_queries + (idx - 1)]]]

\* evaluate_research numbering every follow-up batch from 0 again
evaluate_research_restarts_ids(sufficient, loop_count, state_max, cfg_max, follow_ups, ran_queries) ==
    IF sufficient \/ loop_count >= effective_max_research_loops(state_max, cfg_max)
    THEN [route |-> "finalize_answer", sends |-> <<>>]
    ELSE [route |-> "web_research",
          sends |-> [idx \in 1..Len(follow_ups) |->
                        [search_query |-> follow_ups[idx],
                         id |-> idx - 1]]]

\* evaluate_research that goes back to the planner when more research is needed
evaluate_research_replans(sufficient, loop_count, state_max, cfg_max, follow_ups, ran_queries) ==
    IF sufficient \/ loop_count >= effective_max_research_loops(state_max, cfg_max)
    THEN [route |-> "finalize_answer", sends |-> <<>>]
    ELSE [route |-> "generate_query", sends |-> <<>>]

evaluate_research(sufficient, loop_count, state_max, cfg_max, follow_ups, ran_queries) ==
    IF sufficient \/ loop_count >= effective_max_research_loops(state_max, cfg_max)
    THEN [route |-> "finalize_answer", sends |-> <<>>]
    ELSE [route |-> "web_research",
          sends |-> [idx \in 1..Len(follow_ups) |->
                        [search_query |-> follow_ups[idx],
                         id |-> ran_queries + (idx - 1)]]]

RECURSIVE collect_sources(_)
collect_sources(gathered) ==
    IF gathered = <<>> THEN <<>>
    ELSE <<Head(gathered)>> \o collect_sources(Tail(gathered))

finalize_answer(gathered, content) ==
    [messages |-> <<[type |-> "ai", content |-> content]>>,
     sources_gathered |-> collect_sources(gathered)]

\* ---------------------------------------------------------------- the graph
NewTasks(sends) ==
    [k \in 1..Len(sends) |->
        [id |-> sends[k].id, search_query |-> sends[k].search_query,
         status |-> "pending", nresults |-> 0,
         llm_called |-> FALSE, out |-> NoOutput]]

IdsOf(sends) == [k \in 1..Len(sends) |-> sends[k].id]

\* join that fires as soon as one task of the batch has finished
AllDone_first_finished(ts) == \E k \in 1..Len(ts) : ts[k].status = "done"

AllDone(ts) == \A k \in 1..Len(ts) : ts[k].status = "done"

\* writes of one superstep, applied in task order
RECURSIVE MergeWrites(_, _)
MergeWrites(ts, field) ==
    IF ts = <<>> THEN <<>>
    ELSE reducer_add(ts[1].out[field], MergeWrites(Tail(ts), field))

RunIdle == agent_return = [raised |-> FALSE, value |-> <<>>]
CiteIdle == c_pc = "idle" /\ c_text = <<>> /\ c_sources = <<>> /\ c_out = <<>>
TaskIdle ==
    /\ t_pc = "idle" /\ t_query = <<>> /\ t_llm = [raised |-> FALSE, content |-> <<>>]
    /\ t_response = [raised |-> FALSE, organic |-> <<>>]
    /\ t_request_num = 0 /\ t_results = <<>> /\ t_out = NoOutput

Init ==
    /\ pc = "generate_query"
    /\ configurable = configurable_max_research_loops
    /\ generate_count = 0 /\ evaluations = 0 /\ evidence = <<>>
    /\ messages = <<[type |-> "human", content |-> "question"]>>
    /\ search_query = <<>>
    /\ web_research_result = <<>>
    /\ sources_gathered = <<>>
    /\ research_loop_count = 0
    /\ max_research_loops \in 0..MaxLoops
    /\ is_sufficient = FALSE
    /\ follow_up_queries = <<>>
    /\ number_of_ran_queries = 0
    /\ tasks = <<>>
    /\ error_stage = "none"
    /\ returned_sources = <<>>
    /\ sent_ids = <<>>
    /\ findings_before = 0
    /\ finalize_count = 0
    /\ ever_sufficient = FALSE
    /\ RunIdle /\ CiteIdle /\ TaskIdle

Raise(stage) ==
    /\ pc' = "error"
    /\ error_stage' = stage

\* conditional edge: a list of Send starts the next superstep, an empty list
\* schedules nothing and the run ends
Dispatch(sends) ==
    /\ tasks' = NewTasks(sends)
    /\ sent_ids' = sent_ids \o IdsOf(sends)
    /\ pc' = IF sends = <<>> THEN "done" ELSE "web_research"

GenerateQuery ==
    /\ pc = "generate_query"
    /\ generate_count' = generate_count + 1
    /\ \/ /\ Raise("generate_query")
          /\ UNCHANGED <<search_query, tasks, sent_ids, findings_before>>
       \/ \E query \in QueryLists :
            /\ search_query' = reducer_add(search_query, query)
            /\ Dispatch(continue_to_web_research(query))
            /\ findings_before' = Len(web_research_result)
            /\ UNCHANGED error_stage
    /\ UNCHANGED <<messages, web_research_result, sources_gathered, research_loop_count,
                   max_research_loops, is_sufficient, follow_up_queries,
                   number_of_ran_queries, returned_sources, finalize_count,
                   ever_sufficient, configurable, evaluations, evidence, sideVars>>

WebResearch(i) ==
    /\ pc = "web_research"
    /\ i \in 1..Len(tasks)
    /\ tasks[i].status = "pending"
    /\ \E response \in ProviderResponses,
          llm \in {[raised |-> TRUE, content |-> <<>>]} \cup
                  {[raised |-> FALSE, content |-> r] : r \in Responses} :
         LET search_results == search_web(tasks[i].search_query,
                                          web_research_num_results, response)
             res == web_research(tasks[i].search_query, search_results, llm)
             done == [tasks EXCEPT ![i] =
                        [@ EXCEPT !.status = "done",
                                  !.nresults = Len(search_results),
                                  !.llm_called = res.llm_called,
                                  !.out = res.out]]
         IN  IF res.raised
             THEN /\ Raise("web_research")
                  /\ tasks' = [tasks EXCEPT ![i] =
                                 [@ EXCEPT !.status = "raised",
                                           !.nresults = Len(search_results),
                                           !.llm_called = res.llm_called]]
                  /\ UNCHANGED <<search_query, web_research_result, sources_gathered>>
             ELSE /\ tasks' = done
                  /\ UNCHANGED error_stage
                  /\ IF AllDone(done)
                     THEN /\ pc' = "reflection"
                          /\ search_query' =
                               reducer_add(search_query, MergeWrites(done, "search_query"))
                          /\ web_research_result' =
                               reducer_add(web_research_result,
                                           MergeWrites(done, "web_research_result"))
                          /\ sources_gathered' =
                               reducer_add(sources_gathered,
                                           MergeWrites(done, "sources_gathered"))
                     ELSE UNCHANGED <<pc, search_query, web_research_result,
                                      sources_gathered>>
    /\ UNCHANGED <<messages, research_loop_count, max_research_loops, is_sufficient,
                   follow_up_queries, number_of_ran_queries, returned_sources, sent_ids,
                   findings_before, finalize_count, ever_sufficient, configurable,
                   generate_count, evaluations, evidence, sideVars>>

Reflection ==
    /\ pc = "reflection"
    /\ evidence' = reflection_summaries(web_research_result)
    /\ \/ /\ Raise("reflection")
          /\ UNCHANGED <<research_loop_count, is_sufficient, follow_up_queries,
                         number_of_ran_queries, tasks, sent_ids, findings_before,
                         ever_sufficient, evaluations>>
       \/ \E sufficient \in BOOLEAN, follow_ups \in QueryLists :
            LET ret == reflection(research_loop_count, search_query,
                                  [is_sufficient |-> sufficient,
                                   follow_up_queries |-> follow_ups])
                next == evaluate_research(ret.is_sufficient, ret.research_loop_count,
                                          max_research_loops, configurable,
                                          ret.follow_up_queries, ret.number_of_ran_queries)
            IN  /\ research_loop_count' =
                      last_value(research_loop_count, ret.research_loop_count)
                /\ is_sufficient' = last_value(is_sufficient, ret.is_sufficient)
                /\ follow_up_queries' =
                      last_value(follow_up_queries, ret.follow_up_queries)
                /\ number_of_ran_queries' =
                      last_value(number_of_ran_queries, ret.number_of_ran_queries)
                /\ ever_sufficient' = (ever_sufficient \/ sufficient)
                /\ evaluations' = evaluations + 1
                /\ findings_before' = Len(web_research_result)
                /\ IF next.route = "web_research"
                   THEN Dispatch(next.sends)
                   ELSE /\ pc' = next.route
                        /\ tasks' = <<>>
                        /\ UNCHANGED sent_ids
                /\ UNCHANGED error_stage
    /\ UNCHANGED <<messages, search_query, web_research_result, sources_gathered,
                   max_research_loops, returned_sources, finalize_count, configurable,
                   generate_count, sideVars>>

FinalizeAnswer ==
    /\ pc = "finalize_answer"
    /\ \/ /\ Raise("finalize_answer")
          /\ UNCHANGED <<messages, sources_gathered, returned_sources, finalize_count>>
       \/ \E content \in Answers :
            LET ret == finalize_answer(sources_gathered, content)
            IN  /\ messages' = reducer_add(messages, ret.messages)
                /\ sources_gathered' = reducer_add(sources_gathered, ret.sources_gathered)
                /\ returned_sources' = ret.sources_gathered
                /\ finalize_count' = finalize_count + 1
                /\ pc' = "done"
                /\ UNCHANGED error_stage
    /\ UNCHANGED <<search_query, web_research_result, research_loop_count,
                   max_research_loops, is_sufficient, follow_up_queries,
                   number_of_ran_queries, tasks, sent_ids, findings_before,
                   ever_sufficient, configurable, generate_count, evaluations,
                   evidence, sideVars>>

Next ==
    \/ GenerateQuery
    \/ \E i \in 1..MaxQueries : WebResearch(i)
    \/ Reflection
    \/ FinalizeAnswer

Spec == Init /\ [][Next]_vars

\* ------------------------------- one call of insert_citation_markers
GraphIdle ==
    /\ pc = "idle"
    /\ configurable = configurable_max_research_loops
    /\ generate_count = 0 /\ evaluations = 0 /\ evidence = <<>>
    /\ messages = <<>>
    /\ search_query = <<>>
    /\ web_research_result = <<>>
    /\ sources_gathered = <<>>
    /\ research_loop_count = 0
    /\ max_research_loops = 0
    /\ is_sufficient = FALSE
    /\ follow_up_queries = <<>>
    /\ number_of_ran_queries = 0
    /\ tasks = <<>>
    /\ error_stage = "none"
    /\ returned_sources = <<>>
    /\ sent_ids = <<>>
    /\ findings_before = 0
    /\ finalize_count = 0
    /\ ever_sufficient = FALSE

InitCite ==
    /\ GraphIdle /\ RunIdle /\ TaskIdle
    /\ c_pc = "call"
    /\ c_text \in SeqsUpTo(Alphabet, MaxTextLen)
    /\ c_sources \in SeqsUpTo(CitePages, MaxSources)
    /\ c_out = <<>>

InsertCitationMarkers ==
    /\ c_pc = "call"
    /\ c_out' = insert_citation_markers(c_text, c_sources)
    /\ c_pc' = "returned"
    /\ UNCHANGED <<c_text, c_sources, graphVars, runVars, taskVars>>

NextCite == InsertCitationMarkers

SpecCite == InitCite /\ [][NextCite]_vars

\* ------------------------------------------- one call of web_research
OrganicLists == {[i \in 1..n |-> IF (i + k) % 2 = 0 THEN PageA ELSE PageB] :
                    n \in 0..MaxOrganic, k \in 0..1}

InitTask ==
    /\ GraphIdle /\ RunIdle /\ CiteIdle
    /\ t_pc = "call"
    /\ t_query \in {<<"q", DigitStr(i)>> : i \in 1..2}
    /\ t_response \in {[raised |-> TRUE, organic |-> <<>>]} \cup
                      {[raised |-> FALSE, organic |-> o] : o \in OrganicLists}
    /\ t_llm \in {[raised |-> TRUE, content |-> <<>>]} \cup
                 {[raised |-> FALSE, content |-> r] : r \in Responses}
    /\ t_request_num = 0 /\ t_results = <<>> /\ t_out = NoOutput

WebResearchCall ==
    /\ t_pc = "call"
    /\ LET search_results == search_web(t_query, web_research_num_results, t_response)
           res == web_research(t_query, search_results, t_llm)
       IN  /\ t_request_num' = search_api_num(web_research_num_results)
           /\ t_results' = search_results
           /\ t_out' = res.out
           /\ t_pc' = IF res.raised THEN "raised" ELSE "returned"
    /\ UNCHANGED <<t_query, t_response, t_llm, graphVars, runVars, citeVars>>

NextTask == WebResearchCall

SpecTask == InitTask /\ [][NextTask]_vars

\* ------------------------------------------------------------ run_agent.py
Digit(d) == IF d = 0 THEN "0" ELSE DigitStr(d)

\* str(i) of a non-negative integer, one token per decimal digit
RECURSIVE int_str(_)
int_str(n) == IF n < 10 THEN <<Digit(n)>> ELSE int_str(n \div 10) \o <<Digit(n % 10)>>

\* content of the first AIMessage of the list, "" when there is none
RECURSIVE first_ai_content(_)
first_ai_content(msgs) ==
    IF msgs = <<>> THEN ""
    ELSE IF Head(msgs).type = "ai" THEN Head(msgs).content
         ELSE first_ai_content(Tail(msgs))

\* the lines appended by the enumerate(sources, 1) loop, from index i on
RECURSIVE source_lines(_, _)
source_lines(sources, i) ==
    IF i > Len(sources) THEN <<>>
    ELSE int_str(i) \o <<". ", sources[i].title, "\n   ", sources[i].url, "\n">>
         \o source_lines(sources, i + 1)

\* what graph.invoke hands to run_agent: an exception or the final state
graph_invoke ==
    [raised |-> pc = "error", error |-> error_stage,
     messages |-> messages, sources_gathered |-> sources_gathered]

\* run_agent whose except clause ignores the exception
run_agent_swallows_error(result) ==
    [raised |-> FALSE,
     value |-> IF result.raised \/ first_ai_content(result.messages) = ""
               THEN <<"No answer generated.">>
               ELSE <<first_ai_content(result.messages)>>
                    \o (IF result.sources_gathered = <<>> THEN <<>>
                        ELSE <<"\n\n**Sources:**\n">>
                             \o source_lines(result.sources_gathered, 1))]

\* run_agent without the try / except
run_agent_reraises(result) ==
    IF result.raised THEN [raised |-> TRUE, value |-> <<>>]
    ELSE run_agent_swallows_error(result)

run_agent(result) ==
    IF result.raised
    THEN [raised |-> FALSE, value |-> <<"Error running agent: ", result.error>>]
    ELSE LET response_content == first_ai_content(result.messages)
             sources == result.sources_gathered
         IN  IF response_content = ""
             THEN [raised |-> FALSE, value |-> <<"No answer generated.">>]
             ELSE [raised |-> FALSE,
                   value |-> <<response_content>>
                             \o (IF sources = <<>> THEN <<>>
                                 ELSE <<"\n\n**Sources:**\n">>
                                      \o source_lines(sources, 1))]

InitRun ==
    /\ pc = "generate_query"
    /\ configurable = run_agent_max_research_loops
    /\ generate_count = 0 /\ evaluations = 0 /\ evidence = <<>>
    /\ messages = <<[type |-> "human", content |-> "question"]>>
    /\ search_query = <<>>
    /\ web_research_result = <<>>
    /\ sources_gathered = <<>>
    /\ research_loop_count = 0
    /\ max_research_loops = 0
    /\ is_sufficient = FALSE
    /\ follow_up_queries = <<>>
    /\ number_of_ran_queries = 0
    /\ tasks = <<>>
    /\ error_stage = "none"
    /\ returned_sources = <<>>
    /\ sent_ids = <<>>
    /\ findings_before = 0
    /\ finalize_count = 0
    /\ ever_sufficient = FALSE
    /\ RunIdle /\ CiteIdle /\ TaskIdle

RunAgentReturn ==
    /\ pc \in {"done", "error"}
    /\ agent_return' = run_agent(graph_invoke)
    /\ pc' = "returned"
    /\ UNCHANGED <<configurable, generate_count, evaluations, evidence, messages,
                   search_query, web_research_result, sources_gathered,
                   research_loop_count, max_research_loops, is_sufficient,
                   follow_up_queries, number_of_ran_queries, tasks, error_stage,
                   returned_sources, sent_ids, findings_before, finalize_count,
                   ever_sufficient, citeVars, taskVars>>

NextRun ==
    \/ GenerateQuery
    \/ \E i \in 1..MaxQueries : WebResearch(i)
    \/ Reflection
    \/ FinalizeAnswer
    \/ RunAgentReturn

SpecRun == InitRun /\ [][NextRun]_vars

\* ------------------------------------------------------------ properties
EffectiveMax == effective_max_research_loops(max_research_loops, configurable)

AllTasksFinished == \A k \in 1..Len(tasks) : tasks[k].status = "done"

\* C1: research_loop_count never exceeds max_research_loops, and no
\* web_research batch is in flight once the count has reached the maximum.
C1_LoopBudget ==
    /\ research_loop_count <= EffectiveMax
    /\ (pc = "web_research" => research_loop_count < EffectiveMax)

C1_Witness ==
    /\ pc = "finalize_answer"
    /\ research_loop_count = EffectiveMax
    /\ ~is_sufficient
    /\ follow_up_queries # <<>>

\* C2: a verdict with is_sufficient = True is followed at once by
\* finalize_answer, with no web_research task sent then or ever after,
\* whatever the remaining budget and the verdict's follow_up_queries.
C2_SufficientFinalizes ==
    [][/\ (pc = "reflection" /\ pc' # "error" /\ is_sufficient')
            => (pc' = "finalize_answer" /\ tasks' = <<>>)
       /\ (ever_sufficient' => sent_ids' = sent_ids)]_vars

C2_Witness ==
    /\ pc = "finalize_answer"
    /\ is_sufficient
    /\ follow_up_queries # <<>>
    /\ research_loop_count < EffectiveMax

\* C11: reflection runs, and the next batch is sent, only when every task of
\* the current batch has finished, whatever the order of completions.
C11_BatchesNeverOverlap ==
    [][/\ (research_loop_count' # research_loop_count => AllTasksFinished)
       /\ (sent_ids' # sent_ids => AllTasksFinished)]_vars

C11_Witness ==
    /\ pc = "web_research"
    /\ research_loop_count >= 1
    /\ Len(tasks) >= 2
    /\ \E k \in 1..Len(tasks) : tasks[k].status = "done"
    /\ \E k \in 1..Len(tasks) : tasks[k].status = "pending"

\* C3: a run whose every verdict was insufficient ends, without error, after
\* exactly max_research_loops evaluations, having passed through finalize_answer.
C3_AlwaysInsufficientFinalizes ==
    (pc = "done" /\ research_loop_count >= 1 /\ ~ever_sufficient)
        => (finalize_count = 1 /\ research_loop_count = EffectiveMax)

\* C4: every run that ends without a failed call has executed finalize_answer
\* exactly once.
C4_FinalizedExactlyOnce ==
    /\ finalize_count <= 1
    /\ (pc = "done" => finalize_count = 1)

\* C5: the ids given to web_research tasks strictly increase in dispatch order
\* over the whole run, so no id is used twice within or across batches.
C5_UniqueIds ==
    \A i, j \in 1..Len(sent_ids) : i < j => sent_ids[i] < sent_ids[j]

C5_Witness ==
    /\ pc = "web_research"
    /\ research_loop_count >= 1
    /\ Len(tasks) >= 2
    /\ Len(sent_ids) >= 4

\* C6: every finished task returns exactly one finding, and once a batch is
\* joined the findings added in the round equal the queries sent in the round
\* and the findings in total equal the queries sent in total.
C6_NoFindingDropped ==
    /\ \A k \in 1..Len(tasks) :
          tasks[k].status = "done" => Len(tasks[k].out.web_research_result) = 1
    /\ (pc = "reflection" =>
          /\ Len(web_research_result) - findings_before = Len(tasks)
          /\ Len(web_research_result) = Len(sent_ids))

C6_Witness ==
    /\ pc = "reflection"
    /\ research_loop_count >= 1
    /\ Len(tasks) >= 2
    /\ \E k \in 1..Len(tasks) : tasks[k].nresults = 0
    /\ \E k \in 1..Len(tasks) : tasks[k].nresults > 0

\* first occurrence of each URL, in order
RECURSIVE first_seen_by_url(_, _)
first_seen_by_url(sources, seen) ==
    IF sources = <<>> THEN <<>>
    ELSE IF Head(sources).url \in seen
         THEN first_seen_by_url(Tail(sources), seen)
         ELSE <<Head(sources)>> \o
              first_seen_by_url(Tail(sources), seen \cup {Head(sources).url})

\* sources accumulated by the run before finalize_answer's own update
AccumulatedSources ==
    SubSeq(sources_gathered, 1, Len(sources_gathered) - Len(returned_sources))

\* C7: the source list finalize_answer returns holds one entry per distinct
\* URL of the accumulated sources, in first-seen order.
C7_SourcesDeduplicated ==
    finalize_count = 1 => returned_sources = first_seen_by_url(AccumulatedSources, {})

\* every marker [i] with 1 <= i <= len(sources) replaced by the i-th link in
\* one pass over the input text, all other tokens copied
RECURSIVE substitute_markers(_, _)
substitute_markers(text, sources) ==
    IF text = <<>> THEN <<>>
    ELSE IF \E i \in 1..Len(sources) : StartsWith(text, marker_pattern(i))
         THEN LET i == CHOOSE n \in 1..Len(sources) : StartsWith(text, marker_pattern(n))
              IN  link_replacement(sources[i]) \o substitute_markers(Drop(text, 3), sources)
         ELSE <<Head(text)>> \o substitute_markers(Tail(text), sources)

\* C8: insert_citation_markers replaces exactly the markers [i] of the input
\* text that have an i-th source by that source's link and leaves every other
\* part of the text as it was.
C8_MarkersSubstituted ==
    c_pc = "returned" => c_out = substitute_markers(c_text, c_sources)

\* C9: a task whose search gave zero results finishes with one finding that has
\* no sources and a non-empty text naming its query, without a summarization
\* call; it never raises, and a batch of such tasks is joined and handed to
\* reflection.
C9_ZeroResultFinding ==
    /\ \A k \in 1..Len(tasks) :
          (tasks[k].status # "pending" /\ tasks[k].nresults = 0) =>
             /\ tasks[k].status = "done"
             /\ ~tasks[k].llm_called
             /\ tasks[k].out.sources_gathered = <<>>
             /\ Len(tasks[k].out.web_research_result) = 1
             /\ LET text == tasks[k].out.web_research_result[1]
                    query == tasks[k].search_query
                IN  /\ Len(text) > Len(query)
                    /\ SubSeq(text, Len(text) - Len(query) + 1, Len(text)) = query
    /\ (tasks # <<>> /\ \A k \in 1..Len(tasks) :
                           tasks[k].status # "pending" /\ tasks[k].nresults = 0)
          => (pc = "reflection" \/ error_stage = "reflection")

C9_Witness ==
    /\ pc = "reflection"
    /\ \E k \in 1..Len(tasks) : tasks[k].nresults = 0
    /\ \E k \in 1..Len(tasks) : tasks[k].nresults > 0

\* C10: no failure of a call made inside a web_research task ends the run.
C10_TaskFailureNeverAborts ==
    error_stage # "web_research"

\* C14: dispatch ids are consecutive over the whole run: the k-th query sent
\* gets id k - 1, so a follow-up batch starts at the number of queries sent before.
C14_SequentialIds ==
    \A k \in 1..Len(sent_ids) : sent_ids[k] = k - 1

\* C15: research_loop_count equals the number of evaluations made so far; it
\* starts at 0 and only a verdict of reflection adds 1 to it.
C15_LoopCountIsEvaluations ==
    research_loop_count = evaluations

C15_Witness ==
    /\ pc = "done"
    /\ finalize_count = 1
    /\ evaluations = 2
    /\ Len(sent_ids) >= 3

\* C16: a batch has exactly one task per pending query, in order: the planner's
\* list for the initial batch, the verdict's follow_up_queries afterwards.
C16_OneTaskPerQuery ==
    pc = "web_research" =>
        LET pending == IF evaluations = 0 THEN search_query ELSE follow_up_queries
        IN  /\ Len(tasks) = Len(pending)
            /\ \A k \in 1..Len(tasks) : tasks[k].search_query = pending[k]

C16_Witness ==
    /\ pc = "web_research"
    /\ evaluations >= 1
    /\ Len(tasks) >= 2
    /\ Len(follow_up_queries) = Len(tasks)

IsPrefix(a, b) == Len(a) <= Len(b) /\ SubSeq(b, 1, Len(a)) = a

Contains(text, part) ==
    \E p \in 0..(Len(text) - Len(part)) : SubSeq(text, p + 1, p + Len(part)) = part

RECURSIVE TotalLen(_)
TotalLen(parts) == IF parts = <<>> THEN 0 ELSE Len(Head(parts)) + TotalLen(Tail(parts))

\* C17: findings are only ever appended, and the summaries given to an
\* evaluation hold every finding accumulated so far, one per query sent so
\* far, and nothing else but the separators.
C17_EvidenceAccumulates ==
    [][/\ IsPrefix(web_research_result, web_research_result')
       /\ (pc = "reflection" /\ pc' # pc) =>
             /\ Len(web_research_result) = Len(sent_ids)
             /\ \A k \in 1..Len(web_research_result) :
                   Contains(evidence', web_research_result[k])
             /\ Len(evidence') =
                   TotalLen(web_research_result) + Len(web_research_result) - 1]_vars

C17_Witness ==
    /\ pc = "finalize_answer"
    /\ evaluations = 2
    /\ Len(web_research_result) >= 3
    /\ evidence # <<>>

\* C19: generate_query has run exactly once as soon as the run has left the
\* start node, and never runs again: no web_research task exists before it
\* and no later step leads back to it.
C19_PlannerRunsOnce ==
    /\ (pc = "generate_query" => generate_count = 0 /\ sent_ids = <<>> /\ tasks = <<>>)
    /\ (pc # "generate_query" => generate_count = 1)

C19_Witness ==
    /\ pc = "web_research"
    /\ evaluations >= 1
    /\ generate_count = 1

\* what web_research returns for the same query when the search succeeds with
\* an empty result list
GenuineZeroResultOutput ==
    web_research(t_query,
                 search_web(t_query, web_research_num_results,
                            [raised |-> FALSE, organic |-> <<>>]),
                 t_llm).out

\* C13: the finding returned after a failed search differs from the finding
\* of a search that returned zero results.
C13_FailureIsDistinguishable ==
    (t_pc = "returned" /\ t_response.raised)
        => t_out.web_research_result # GenuineZeroResultOutput.web_research_result

HasAIMessage == \E k \in 1..Len(messages) : messages[k].type = "ai"

AnswerTexts == {<<a>> : a \in Answers}

\* C12: a run in which the planner call, the evaluator call or the
\* answer-synthesis call raised holds no AI message, and what run_agent
\* returns for it is the error string, which contains no answer text.
C12_FatalFailureReturnsNoAnswer ==
    (error_stage \in {"generate_query", "reflection", "finalize_answer"}) =>
        /\ pc \in {"error", "returned"}
        /\ ~HasAIMessage
        /\ finalize_count = 0
        /\ pc = "returned" =>
              /\ agent_return.value = <<"Error running agent: ", error_stage>>
              /\ \A a \in AnswerTexts : ~Contains(agent_return.value, a)

C12_Witness ==
    /\ pc = "returned"
    /\ error_stage = "finalize_answer"
    /\ sources_gathered # <<>>
    /\ agent_return.value = <<"Error running agent: ", "finalize_answer">>

====
